---------------------------- MODULE Spec2Model ----------------------------
(***************************************************************************)
(* Model of the two numeric utilities of the repository:                   *)
(*                                                                         *)
(*   dragon_eggs/egg_drop_lib.c, egg_drop_solver.c                         *)
(*       find_breaking_point and its helpers (the two files hold the same  *)
(*       code for them), stepped one loop iteration at a time.             *)
(*   radiation_pattern/radiation_pattern_lib.c                             *)
(*       the PCG generator, randn, seed_rng, calculate_pattern, add_awgn.  *)
(*                                                                         *)
(* Three specifications share the module: SpecEgg (the egg-drop search),   *)
(* Spec (the radiation-pattern library driven by a sequential caller) and  *)
(* SpecPar (add_awgn's loop run by the workers of the parallel region).    *)
(***************************************************************************)
EXTENDS Integers, Naturals, Sequences, FiniteSets, TLC

VARIABLES
    \* ---- egg drop: find_breaking_point's frame ----
    epc,             \* position: "idle", "binary", "linear", "second", "done", "crashed"
    breaking_floor,  \* argument
    total_floors,    \* argument
    optimal_drops,   \* result.optimal_drops
    drops_used,      \* result.drops_used
    drop_points,     \* the first num_points entries of the static array
    num_points,
    left, right,     \* binary_search_drops' uint32_t bounds, as 16-bit limbs <<hi, lo>>
    previous_floor,
    lin_i,           \* the linear search's index i
    \* ---- egg drop: observers (not program state) ----
    broken_first,    \* drops of the first-egg phase made from a floor >= breaking_floor
    broken_total,    \* such drops of the whole search
    last_mid,        \* index of the latest drop_points[mid] read, as limbs; <<>> if none
    wrapped,         \* right = mid - 1 was executed with mid = 0
    oob_reads,       \* reads drop_points[mid] with mid >= num_points so far
    \* ---- radiation pattern: the process-wide generator ----
    rng_state,       \* rng.state, eight bytes, least significant first
    rng_inc,         \* rng.inc
    has_spare,       \* randn's static has_spare
    spare,           \* randn's static spare
    \* ---- radiation pattern: the caller's position and the running call ----
    cpc,             \* "idle", "phases", "angles", "cp_ret", "awgn", "awgn_ret"
    n_elements, n_theta, phase_error_std, steering_angle, spacing,
    total_phases,    \* the scratch array, as far as it is filled
    pattern_out,     \* the caller's buffer, "untouched" where not written
    cp_t,            \* the angles t whose iteration has run
    n_samples, snr_db, noise_std,
    signal,          \* the caller's buffer of add_awgn
    aw_i,            \* add_awgn's loop index
    aw_part,         \* the deviates of the current sample drawn so far
    aw_order,        \* which of the two randn calls of a sample runs first
    ret,             \* the value returned, read at "cp_ret" and "awgn_ret" only
    \* ---- radiation pattern: observers (not program state) ----
    last_seed,       \* the latest seed_rng argument, <<>> before the first
    spare_at_seed,   \* has_spare at that seed_rng call
    drawn,           \* the deviates randn returned since then, in order
    pcg_calls,       \* pcg32_random calls made by randn since then
    gen_at_call,     \* the generator when the running call was entered
    cp_draws,        \* randn calls of the running calculate_pattern
    draw_after_write,\* a randn call followed a write to pattern_out in it
    memo,            \* at most one remembered call without phase error: its
                     \* arguments, its output, whether the generator was used since
    \* ---- add_awgn's parallel region ----
    wpc,             \* each worker's position in the loop body and in randn
    wloc,            \* each worker's locals
    in_region        \* highest number of workers inside randn at once so far

eggVars == <<epc, breaking_floor, total_floors, optimal_drops, drops_used,
             drop_points, num_points, left, right, previous_floor, lin_i,
             broken_first, broken_total, last_mid, wrapped, oob_reads>>

rngVars == <<rng_state, rng_inc, has_spare, spare>>

rngObs == <<last_seed, spare_at_seed, drawn, pcg_calls>>

cpVars == <<n_elements, n_theta, phase_error_std, steering_angle, spacing,
            total_phases, pattern_out, cp_t, cp_draws, draw_after_write>>

awVars == <<n_samples, snr_db, noise_std, signal, aw_i, aw_part, aw_order>>

radVars == <<rngVars, rngObs, cpc, cpVars, awVars, ret, gen_at_call, memo>>

parVars == <<wpc, wloc, in_region>>

vars == <<eggVars, radVars, parVars>>

-----------------------------------------------------------------------------
(* Bounds of the model *)

\* Largest building explored. 66, 77 and 78 floors give 11, 11 and 12 drop
\* points, the first sizes that take the binary-search branch.
MaxFloors == 78

\* Reads of drop_points[mid] outside the filled part that one search follows.
MaxOobReads == 2

\* Largest element count, angle count and sample count a caller passes.
MaxElements == 2
MaxTheta == 2
MaxSamples == 2

\* Deviates drawn between two seed_rng calls.
MaxDeviates == 3

\* Workers of the parallel region, and the iterations of its chunk that each
\* is followed through.
NumWorkers == 2
MaxParIter == 1

-----------------------------------------------------------------------------
(* uint32_t arithmetic on two 16-bit limbs <<hi, lo>> *)

LIMB == 65536

U32(n) == <<n \div LIMB, n % LIMB>>

\* The value of a limb pair that is known to be below 2^31.
U32Int(x) == x[1] * LIMB + x[2]

U32Small(x) == x[1] < 32768

U32Leq(x, y) == x[1] < y[1] \/ (x[1] = y[1] /\ x[2] <= y[2])

\* x + 1 and x - 1 modulo 2^32
U32Inc(x) ==
    IF x[2] + 1 < LIMB THEN <<x[1], x[2] + 1>> ELSE <<(x[1] + 1) % LIMB, 0>>

U32Dec(x) ==
    IF x[2] > 0 THEN <<x[1], x[2] - 1>> ELSE <<(x[1] + LIMB - 1) % LIMB, LIMB - 1>>

\* ((x + y) modulo 2^32) >> 1
U32AvgShr(x, y) ==
    LET lo == x[2] + y[2]
        hi == (x[1] + y[1] + lo \div LIMB) % LIMB
    IN  <<hi \div 2, (hi % 2) * (LIMB \div 2) + (lo % LIMB) \div 2>>

-----------------------------------------------------------------------------
(* uint64_t arithmetic on eight bytes, least significant first *)

BYTE == 256

RECURSIVE Pow2(_)
Pow2(n) == IF n = 0 THEN 1 ELSE 2 * Pow2(n - 1)

RECURSIVE U64AddFrom(_, _, _, _)
U64AddFrom(a, b, k, carry) ==
    IF k > 8 THEN <<>>
    ELSE LET sum == a[k] + b[k] + carry
         IN  <<sum % BYTE>> \o U64AddFrom(a, b, k + 1, sum \div BYTE)

\* (a + b) modulo 2^64
U64Add(a, b) == U64AddFrom(a, b, 1, 0)

RECURSIVE MulColumn(_, _, _, _)
MulColumn(a, b, k, i) ==
    IF i > k THEN 0 ELSE a[i] * b[k + 1 - i] + MulColumn(a, b, k, i + 1)

RECURSIVE U64MulFrom(_, _, _, _)
U64MulFrom(a, b, k, carry) ==
    IF k > 8 THEN <<>>
    ELSE LET sum == MulColumn(a, b, k, 1) + carry
         IN  <<sum % BYTE>> \o U64MulFrom(a, b, k + 1, sum \div BYTE)

\* (a * b) modulo 2^64
U64Mul(a, b) == U64MulFrom(a, b, 1, 0)

\* Bit j of x; 0 from bit 64 on, as after a right shift.
U64Bit(x, j) == IF j > 63 THEN 0 ELSE (x[(j \div 8) + 1] \div Pow2(j % 8)) % 2

\* (x << 1) | 1
U64Shl1Or1(x) ==
    [k \in 1..8 |-> ((2 * x[k]) % BYTE) + (IF k = 1 THEN 1 ELSE x[k - 1] \div 128)]

-----------------------------------------------------------------------------
(* radiation pattern: the PCG generator and randn *)

\* static pcg32_random_t rng = { 0x853c49e6748fea9b, 0xda3e39cb94b95bdb }
PCG_INIT_STATE == <<155, 234, 143, 116, 230, 73, 60, 133>>
PCG_INIT_INC   == <<219, 91, 185, 148, 203, 57, 62, 218>>

\* 6364136223846793005 = 0x5851f42d4c957f2d
PCG_MULT == <<45, 127, 149, 76, 45, 244, 81, 88>>

\* The largest pcg32_random() value v with (double)v / UINT32_MAX <= 1e-7:
\* 429 / 4294967295 = 0.9988e-7 and 430 / 4294967295 = 1.0012e-7.
REJECT_MAX == 429

\* rng.state = oldstate * 6364136223846793005ULL + rng.inc
PcgAdvance(state, inc) == U64Add(U64Mul(state, PCG_MULT), inc)

\* Bit i (0..31) of xorshifted = ((oldstate >> 18u) ^ oldstate) >> 27u.
XorShiftedBit(old, i) == (U64Bit(old, i + 45) + U64Bit(old, i + 27)) % 2

\* rot = oldstate >> 59u
PcgRot(old) == old[8] \div 8

\* Bit i of (xorshifted >> rot) | (xorshifted << ((-rot) & 31)).
PcgOutBit(old, i) == XorShiftedBit(old, (i + PcgRot(old)) % 32)

RECURSIVE PcgOutLimb(_, _, _)
PcgOutLimb(old, base, i) ==
    IF i > 15 THEN 0
    ELSE PcgOutBit(old, base + i) * Pow2(i) + PcgOutLimb(old, base, i + 1)

\* The value pcg32_random returns in state oldstate, as limbs <<hi, lo>>.
PcgOutput(old) == <<PcgOutLimb(old, 16, 0), PcgOutLimb(old, 0, 0)>>

\* u1 <= 1e-7 for u1 = (double)v / UINT32_MAX
Rejected(v) == v[1] = 0 /\ v[2] <= REJECT_MAX

\* The do-while loop of randn from generator state `state`: the state after
\* it, the accepted uniforms and the number of pcg32_random calls made.
RECURSIVE DrawPair(_, _, _)
DrawPair(state, inc, steps) ==
    LET s1 == PcgAdvance(state, inc)
        s2 == PcgAdvance(s1, inc)
        u1 == PcgOutput(state)
        u2 == PcgOutput(s1)
    IN  IF Rejected(u1) THEN DrawPair(s2, inc, steps + 2)
        ELSE [state |-> s2, u1 |-> u1, u2 |-> u2, steps |-> steps + 2]

\* The two deviates of one Box-Muller transform, kept as terms:
\* z = sqrt(-2 log u1) cos(2 pi u2), spare = sqrt(-2 log u1) sin(2 pi u2).
BoxMullerZ(u1, u2) == <<"cos", u1, u2>>
BoxMullerSpare(u1, u2) == <<"sin", u1, u2>>

\* static double spare starts as 0.0.
SPARE_INIT == <<"zero">>

\* mean + std_dev * z, kept as a term.
Scaled(mean, std_dev, z) == <<mean, std_dev, z>>

\* The deviate a term was scaled from.
Deviate(x) == x[3]

\* A variant whose cached branch forgets has_spare = false.
randn_KeepsFlag(g, mean, std_dev) ==
    IF g.has_spare
    THEN [g |-> g, ret |-> Scaled(mean, std_dev, g.spare), steps |-> 0]
    ELSE LET d == DrawPair(g.state, g.inc, 0)
         IN  [g |-> [state |-> d.state, inc |-> g.inc, has_spare |-> TRUE,
                     spare |-> BoxMullerSpare(d.u1, d.u2)],
              ret |-> Scaled(mean, std_dev, BoxMullerZ(d.u1, d.u2)),
              steps |-> d.steps]

\* randn(mean, std_dev) on the generator g = [state, inc, has_spare, spare]:
\* the generator after the call, the value returned, the pcg32_random calls.
randn(g, mean, std_dev) ==
    IF g.has_spare
    THEN [g |-> [g EXCEPT !.has_spare = FALSE],
          ret |-> Scaled(mean, std_dev, g.spare),
          steps |-> 0]
    ELSE LET d == DrawPair(g.state, g.inc, 0)
         IN  [g |-> [state |-> d.state, inc |-> g.inc, has_spare |-> TRUE,
                     spare |-> BoxMullerSpare(d.u1, d.u2)],
              ret |-> Scaled(mean, std_dev, BoxMullerZ(d.u1, d.u2)),
              steps |-> d.steps]

\* seed_rng(seed) on the generator g: has_spare and spare are not touched.
seed_rng(g, seed) ==
    LET inc == U64Shl1Or1(seed)
    IN  [g EXCEPT !.state = PcgAdvance(seed, inc), !.inc = inc]

-----------------------------------------------------------------------------
(* radiation pattern: the caller's data *)

\* Seeds a caller passes to seed_rng: 42, and 0xc52e4c49005dd831, after which
\* rng.state is 0 and the first uniform drawn is 0 (a rejected pair).
SEED_42 == <<42, 0, 0, 0, 0, 0, 0, 0>>
SEED_REJECT == <<49, 216, 93, 0, 73, 76, 46, 197>>
Seeds == {SEED_42, SEED_REJECT}

\* phase_error_std (degrees), steering_angle (degrees), spacing (in half
\* wavelengths, so 1 is spacing_wavelength = 0.5) and snr_db values passed.
PhaseErrorStds == {0, 5}
SteeringAngles == {0, 90}
Spacings == {1}
SnrDbs == {10}

\* amplitude_weights[n], phase_weights[n] (degrees), theta_deg[t] (degrees) and
\* signal[i] = re + I im on entry, for whatever lengths the caller passes.
AmplitudeWeight(n) == 1
PhaseWeight(n) == 90 * (n % 2)
ThetaDeg(t) == 90 * (t % 3)
SignalIn(i) == <<i + 1, i % 2>>

-----------------------------------------------------------------------------
(* radiation pattern: pure helpers of calculate_pattern and add_awgn *)

\* #pragma omp parallel for if(n > 1000)
OMP_IF_THRESHOLD == 1000

RunsParallel(n) == n > OMP_IF_THRESHOLD

\* sin of a multiple of 90 degrees.
SinDeg(a) == CASE a % 360 = 0 -> 0
               [] a % 360 = 90 -> 1
               [] a % 360 = 180 -> 0
               [] a % 360 = 270 -> -1

\* What malloc(n_elements * sizeof(double)) may return. A negative count
\* converts to a size of 2^64 - 8|n| bytes, which no allocation satisfies;
\* malloc(0) returns NULL or a pointer; any other request may fail.
MallocOutcomes(n) == IF n < 0 THEN {"NULL"} ELSE {"NULL", "ptr"}

\* A variant with the comparison reversed (< for >).
DrawsPhaseError_Reversed(std) == std < 0

\* A variant that also draws at phase_error_std = 0 (>= for >).
DrawsPhaseError_AtZero(std) == std >= 0

\* phase_error_std > 0 ? randn(0, phase_error_std) : 0
DrawsPhaseError(std) == std > 0

\* total_phases[i] = (phase_weights[i] + phase_error) * M_PI / 180.0, kept as
\* the degrees and the error term it is converted from.
TotalPhase(i, phase_error) == [deg |-> PhaseWeight(i), err |-> phase_error]

\* phase = k * position * (sin_theta - sin_steering) + total_phases[n], with
\* k = 2 pi and position = n * d: 180 n h (sin_theta - sin_steering) degrees
\* for d = h / 2 wavelengths, plus the element's total phase.
ElementPhase(n, d, theta, steering, tp) ==
    [deg |-> 180 * n * d * (SinDeg(theta) - SinDeg(steering)) + tp.deg,
     err |-> tp.err]

\* sum over the elements of amplitude_weights[n] * (cos(phase) + I * sin(phase)),
\* kept as the sequence of its terms <<amplitude, phase>>.
PatternSum(n_el, d, theta, steering, phases) ==
    [k \in 1..(IF n_el > 0 THEN n_el ELSE 0) |->
        <<AmplitudeWeight(k - 1), ElementPhase(k - 1, d, theta, steering, phases[k])>>]

\* The angle iterations that may run next: in index order, or any of those
\* left when the loop is shared among workers.
NextAngles(n_th, ran) ==
    LET pending == {t \in 0..(n_th - 1) : t \notin ran}
    IN  IF RunsParallel(n_th) THEN pending
        ELSE {t \in pending : \A u \in pending : t <= u}

\* cabs(signal[i]) * cabs(signal[i])
SamplePower(i) == SignalIn(i)[1] * SignalIn(i)[1] + SignalIn(i)[2] * SignalIn(i)[2]

\* The sum accumulated by add_awgn's first loop over signal[lo .. hi - 1],
\* by halves to keep the evaluation shallow.
RECURSIVE PowerRange(_, _)
PowerRange(lo, hi) ==
    IF hi <= lo THEN 0
    ELSE IF hi = lo + 1 THEN SamplePower(lo)
    ELSE LET mid == (lo + hi) \div 2
         IN  PowerRange(lo, mid) + PowerRange(mid, hi)

PowerSum(n) == PowerRange(0, n)

\* signal_power /= n_samples: a double division, 0.0 / 0 gives NaN.
MeanPower(n) == IF n = 0 THEN "NaN" ELSE <<PowerSum(n), n>>

\* sqrt((signal_power / pow(10, snr_db / 10)) / 2), kept as a term.
NoiseStd(power, snr) == <<"noise_std", power, snr>>

\* signal[i] += noise_std * (re + I * im)
AddNoise(sample, std, re, im) == <<sample, std, re, im>>

-----------------------------------------------------------------------------
(* egg drop: pure helpers *)

\* The length of the static array drop_points.
DROP_POINTS_LEN == 1000

\* Above this many drop points the first egg is searched by bisection.
BINARY_MIN_POINTS == 10

\* ceil((-1 + sqrt(1 + 8 n)) / 2): the least k with 2k + 1 >= sqrt(1 + 8n).
RECURSIVE CeilRoot(_, _)
CeilRoot(n, k) ==
    IF (2 * k + 1) * (2 * k + 1) >= 1 + 8 * n THEN k ELSE CeilRoot(n, k + 1)

calculate_optimal_drops(n) == CeilRoot(n, 0)

\* The while loop of calculate_drop_points, from (current_floor, step, points).
RECURSIVE DropPointsFrom(_, _, _, _, _)
DropPointsFrom(total, current_floor, step, acc, max_points) ==
    IF step > 0 /\ current_floor + step <= total /\ Len(acc) < max_points
    THEN DropPointsFrom(total, current_floor + step, step - 1,
                        Append(acc, current_floor + step), max_points)
    ELSE acc

calculate_drop_points(total, max_points) ==
    DropPointsFrom(total, 0, calculate_optimal_drops(total), <<>>, max_points)

\* A drop from floor f breaks the egg exactly when f >= breaking_floor.
Breaks(f, bf) == IF f >= bf THEN 1 ELSE 0

\* What a read of drop_points[mid] past the filled part may deliver: a stale or
\* foreign word, represented by one value for each branch of the comparison.
GarbageWords(bf) == {0, bf, bf + 1}

-----------------------------------------------------------------------------
(* egg drop: find_breaking_point, one loop iteration per step *)

EggInit ==
    /\ epc = "idle"
    /\ breaking_floor = 0
    /\ total_floors = 0
    /\ optimal_drops = 0
    /\ drops_used = 0
    /\ drop_points = <<>>
    /\ num_points = 0
    /\ left = U32(0)
    /\ right = U32(0)
    /\ previous_floor = 0
    /\ lin_i = 0
    /\ broken_first = 0
    /\ broken_total = 0
    /\ last_mid = <<>>
    /\ wrapped = FALSE
    /\ oob_reads = 0

\* The test that sends the first egg to binary_search_drops.
UseBinarySearch(n) == n > BINARY_MIN_POINTS

\* find_breaking_point up to the choice of the first-egg search, with
\* binary_search_drops' initialisation when that branch is taken.
FBP_Call(bf, tf) ==
    /\ UNCHANGED <<radVars, parVars>>
    /\ epc = "idle"
    /\ breaking_floor' = bf
    /\ total_floors' = tf
    /\ optimal_drops' = calculate_optimal_drops(tf)
    /\ drops_used' = 0
    /\ drop_points' = calculate_drop_points(tf, DROP_POINTS_LEN)
    /\ num_points' = Len(drop_points')
    /\ left' = U32(0)
    /\ right' = U32Dec(U32(num_points'))
    /\ previous_floor' = 0
    /\ lin_i' = 0
    /\ epc' = IF UseBinarySearch(num_points') THEN "binary" ELSE "linear"
    /\ broken_first' = 0
    /\ broken_total' = 0
    /\ last_mid' = <<>>
    /\ wrapped' = FALSE
    /\ oob_reads' = 0

\* The index of the next read, and whether it lies in the filled part.
BS_Mid == U32AvgShr(left, right)
InFilled(mid) == U32Small(mid) /\ U32Int(mid) < num_points
InArray(mid) == U32Small(mid) /\ U32Int(mid) < DROP_POINTS_LEN

\* The new right bound after floor > breaking_floor.
BS_NewRight(mid) == U32Dec(mid)

\* The body of binary_search_drops' loop once drop_points[mid] delivered floor.
BS_Compare(mid, floor) ==
    /\ drops_used' = drops_used + 1
    /\ last_mid' = mid
    /\ broken_first' = broken_first + Breaks(floor, breaking_floor)
    /\ broken_total' = broken_total + Breaks(floor, breaking_floor)
    /\ IF floor = breaking_floor
       THEN \* return floor; the caller sees previous_floor == breaking_floor
            /\ previous_floor' = floor
            /\ epc' = "done"
            /\ UNCHANGED <<left, right, wrapped>>
       ELSE IF floor > breaking_floor
       THEN /\ right' = BS_NewRight(mid)
            /\ wrapped' = (wrapped \/ mid = U32(0))
            /\ UNCHANGED <<left, previous_floor, epc>>
       ELSE /\ previous_floor' = floor
            /\ left' = U32Inc(mid)
            /\ UNCHANGED <<right, wrapped, epc>>
    /\ UNCHANGED <<breaking_floor, total_floors, optimal_drops, drop_points,
                   num_points, lin_i>>

\* One iteration whose index lies in the filled part of the array.
BS_Read ==
    /\ UNCHANGED <<radVars, parVars>>
    /\ epc = "binary"
    /\ U32Leq(left, right)
    /\ InFilled(BS_Mid)
    /\ BS_Compare(BS_Mid, drop_points[U32Int(BS_Mid) + 1])
    /\ UNCHANGED oob_reads

\* One iteration whose index lies past the filled part: inside the array the
\* word is zero or left by an earlier call, beyond it the read is undefined.
BS_ReadOutside ==
    /\ UNCHANGED <<radVars, parVars>>
    /\ epc = "binary"
    /\ U32Leq(left, right)
    /\ ~InFilled(BS_Mid)
    /\ oob_reads < MaxOobReads
    /\ oob_reads' = oob_reads + 1
    /\ \E g \in GarbageWords(breaking_floor) : BS_Compare(BS_Mid, g)

\* The read beyond the array faults and the process ends.
BS_Fault ==
    /\ UNCHANGED <<radVars, parVars>>
    /\ epc = "binary"
    /\ U32Leq(left, right)
    /\ ~InArray(BS_Mid)
    /\ oob_reads < MaxOobReads
    /\ oob_reads' = oob_reads + 1
    /\ last_mid' = BS_Mid
    /\ epc' = "crashed"
    /\ UNCHANGED <<breaking_floor, total_floors, optimal_drops, drops_used,
                   drop_points, num_points, left, right, previous_floor, lin_i,
                   broken_first, broken_total, wrapped>>

\* left > right: binary_search_drops returns previous_floor, which is below
\* breaking_floor, so the caller goes on to the second egg.
BS_Exit ==
    /\ UNCHANGED <<radVars, parVars>>
    /\ epc = "binary"
    /\ ~U32Leq(left, right)
    /\ epc' = IF previous_floor = breaking_floor THEN "done" ELSE "second"
    /\ UNCHANGED <<breaking_floor, total_floors, optimal_drops, drops_used,
                   drop_points, num_points, left, right, previous_floor, lin_i,
                   broken_first, broken_total, last_mid, wrapped, oob_reads>>

\* One iteration of the linear first-egg search, or its exit at i = num_points.
Linear_Step ==
    /\ UNCHANGED <<radVars, parVars>>
    /\ epc = "linear"
    /\ IF lin_i < num_points
       THEN LET floor == drop_points[lin_i + 1] IN
            /\ drops_used' = drops_used + 1
            /\ broken_first' = broken_first + Breaks(floor, breaking_floor)
            /\ broken_total' = broken_total + Breaks(floor, breaking_floor)
            /\ IF floor >= breaking_floor
               THEN /\ previous_floor' = IF lin_i > 0 THEN drop_points[lin_i] ELSE 0
                    /\ epc' = "second"
                    /\ UNCHANGED lin_i
               ELSE /\ previous_floor' = floor
                    /\ lin_i' = lin_i + 1
                    /\ UNCHANGED epc
       ELSE /\ epc' = "second"
            /\ UNCHANGED <<drops_used, broken_first, broken_total,
                           previous_floor, lin_i>>
    /\ UNCHANGED <<breaking_floor, total_floors, optimal_drops, drop_points,
                   num_points, left, right, last_mid, wrapped, oob_reads>>

\* Whether the second egg's loop goes on after a drop from floor f.
SecondEggContinues(f, bf) == ~(f >= bf)

\* One evaluation of while (++(*floor_ptr) <= breaking_floor) and its body.
Second_Step ==
    /\ UNCHANGED <<radVars, parVars>>
    /\ epc = "second"
    /\ previous_floor' = previous_floor + 1
    /\ IF previous_floor' <= breaking_floor
       THEN /\ drops_used' = drops_used + 1
            /\ broken_total' = broken_total + Breaks(previous_floor', breaking_floor)
            /\ epc' = IF SecondEggContinues(previous_floor', breaking_floor)
                      THEN "second" ELSE "done"
       ELSE /\ epc' = "done"
            /\ UNCHANGED <<drops_used, broken_total>>
    /\ UNCHANGED <<breaking_floor, total_floors, optimal_drops, drop_points,
                   num_points, left, right, lin_i, broken_first, last_mid,
                   wrapped, oob_reads>>

\* return result: the frame is gone and the caller may call again.
FBP_Return ==
    /\ UNCHANGED <<radVars, parVars>>
    /\ epc = "done"
    /\ epc' = "idle"
    /\ breaking_floor' = 0
    /\ total_floors' = 0
    /\ optimal_drops' = 0
    /\ drops_used' = 0
    /\ drop_points' = <<>>
    /\ num_points' = 0
    /\ left' = U32(0)
    /\ right' = U32(0)
    /\ previous_floor' = 0
    /\ lin_i' = 0
    /\ broken_first' = 0
    /\ broken_total' = 0
    /\ last_mid' = <<>>
    /\ wrapped' = FALSE
    /\ oob_reads' = 0

-----------------------------------------------------------------------------
(* radiation pattern: a sequential caller of the library *)

Gen == [state |-> rng_state, inc |-> rng_inc, has_spare |-> has_spare,
        spare |-> spare]

SetGen(g) ==
    /\ rng_state' = g.state
    /\ rng_inc' = g.inc
    /\ has_spare' = g.has_spare
    /\ spare' = g.spare

\* gen_at_call when no call is running.
NoGen == [state |-> <<>>, inc |-> <<>>, has_spare |-> FALSE, spare |-> <<>>]

\* The frames of the two calls when none is running.
NoCpFrame ==
    /\ n_elements' = 0
    /\ n_theta' = 0
    /\ phase_error_std' = 0
    /\ steering_angle' = 0
    /\ spacing' = 0
    /\ total_phases' = <<>>
    /\ pattern_out' = <<>>
    /\ cp_t' = {}
    /\ cp_draws' = 0
    /\ draw_after_write' = FALSE

NoAwFrame ==
    /\ n_samples' = 0
    /\ snr_db' = 0
    /\ noise_std' = "none"
    /\ signal' = <<>>
    /\ aw_i' = 0
    /\ aw_part' = <<>>
    /\ aw_order' = "none"

\* A worker's locals: iterations done, which randn call of the sample runs,
\* pcg32_random's oldstate, which uniform is being drawn, u1, u2, and the
\* value of the sample's first randn call.
NoLocals == [iter |-> 0, call |-> 0, old |-> <<>>, k |-> 0, u1 |-> <<>>,
             u2 |-> <<>>, first |-> <<>>]

RadInit ==
    /\ rng_state = PCG_INIT_STATE
    /\ rng_inc = PCG_INIT_INC
    /\ has_spare = FALSE
    /\ spare = SPARE_INIT
    /\ cpc = "idle"
    /\ n_elements = 0
    /\ n_theta = 0
    /\ phase_error_std = 0
    /\ steering_angle = 0
    /\ spacing = 0
    /\ total_phases = <<>>
    /\ pattern_out = <<>>
    /\ cp_t = {}
    /\ cp_draws = 0
    /\ draw_after_write = FALSE
    /\ n_samples = 0
    /\ snr_db = 0
    /\ noise_std = "none"
    /\ signal = <<>>
    /\ aw_i = 0
    /\ aw_part = <<>>
    /\ aw_order = "none"
    /\ ret = 0
    /\ last_seed = <<>>
    /\ spare_at_seed = FALSE
    /\ drawn = <<>>
    /\ pcg_calls = 0
    /\ gen_at_call = NoGen
    /\ memo = {}
    /\ wpc = [w \in 0..(NumWorkers - 1) |-> "out"]
    /\ wloc = [w \in 0..(NumWorkers - 1) |-> NoLocals]
    /\ in_region = 0

\* The remembered call, marked once the generator is used after it.
GeneratorUsed(m) == {[x EXCEPT !.rng_used = TRUE] : x \in m}

\* One randn(mean, std_dev) call by the running call; the value it returns
\* is r.ret for r == randn(Gen, mean, std_dev).
RandnCalled(r) ==
    /\ Len(drawn) < MaxDeviates
    /\ SetGen(r.g)
    /\ drawn' = Append(drawn, Deviate(r.ret))
    /\ pcg_calls' = pcg_calls + r.steps
    /\ memo' = GeneratorUsed(memo)
    /\ UNCHANGED <<last_seed, spare_at_seed>>

\* seed_rng(seed)
SeedRng(seed) ==
    /\ cpc = "idle"
    /\ SetGen(seed_rng(Gen, seed))
    /\ last_seed' = seed
    /\ spare_at_seed' = has_spare
    /\ drawn' = <<>>
    /\ pcg_calls' = 0
    /\ memo' = GeneratorUsed(memo)
    /\ UNCHANGED <<cpc, cpVars, awVars, ret, gen_at_call, eggVars, parVars>>

\* calculate_pattern up to the first loop: the malloc and its null check.
CP_Call(n_el, n_th, std, steer, d) ==
    /\ cpc = "idle"
    /\ n_elements' = n_el
    /\ n_theta' = n_th
    /\ phase_error_std' = std
    /\ steering_angle' = steer
    /\ spacing' = d
    /\ pattern_out' = [t \in 1..(IF n_th > 0 THEN n_th ELSE 0) |-> "untouched"]
    /\ cp_t' = {}
    /\ cp_draws' = 0
    /\ draw_after_write' = FALSE
    /\ gen_at_call' = Gen
    /\ \E m \in MallocOutcomes(n_el) :
          IF m = "NULL"
          THEN /\ total_phases' = <<>>
               /\ cpc' = "cp_ret"
               /\ ret' = -1
          ELSE /\ total_phases' = <<>>
               /\ cpc' = "phases"
               /\ ret' = 0
    /\ UNCHANGED <<rngVars, rngObs, awVars, memo, eggVars, parVars>>

\* One evaluation of the first loop: an element's total phase, or the exit.
CP_Phase ==
    /\ cpc = "phases"
    /\ LET i == Len(total_phases) IN
       IF i < n_elements
       THEN IF DrawsPhaseError(phase_error_std)
            THEN LET r == randn(Gen, 0, phase_error_std) IN
                 /\ RandnCalled(r)
                 /\ total_phases' = Append(total_phases, TotalPhase(i, r.ret))
                 /\ cp_draws' = cp_draws + 1
                 /\ draw_after_write' = (draw_after_write \/ cp_t # {})
                 /\ UNCHANGED cpc
            ELSE /\ total_phases' = Append(total_phases, TotalPhase(i, 0))
                 /\ UNCHANGED <<rngVars, rngObs, cp_draws, draw_after_write, cpc,
                                memo>>
       ELSE /\ cpc' = "angles"
            /\ UNCHANGED <<rngVars, rngObs, total_phases, cp_draws,
                           draw_after_write, memo>>
    /\ UNCHANGED <<n_elements, n_theta, phase_error_std, steering_angle, spacing,
                   pattern_out, cp_t, awVars, ret, gen_at_call, eggVars, parVars>>

\* One iteration of the loop over the angles, or free and return 0.
CP_Angle ==
    /\ cpc = "angles"
    /\ IF cp_t # {t \in 0..(n_theta - 1) : TRUE}
       THEN /\ \E t \in NextAngles(n_theta, cp_t) :
                 /\ pattern_out' = [pattern_out EXCEPT ![t + 1] =
                        PatternSum(n_elements, spacing, ThetaDeg(t),
                                   steering_angle, total_phases)]
                 /\ cp_t' = cp_t \cup {t}
            /\ UNCHANGED <<cpc, ret>>
       ELSE /\ cpc' = "cp_ret"
            /\ ret' = 0
            /\ UNCHANGED <<pattern_out, cp_t>>
    /\ UNCHANGED <<rngVars, rngObs, n_elements, n_theta, phase_error_std,
                   steering_angle, spacing, total_phases, cp_draws,
                   draw_after_write, awVars, gen_at_call, memo, eggVars, parVars>>

\* The arguments that identify a call without phase error.
CallArgs == <<n_elements, n_theta, steering_angle, spacing>>

\* The caller takes the result; it may keep the non-empty output of a
\* successful call without phase error or steering to compare a later one with.
CP_Return ==
    /\ cpc = "cp_ret"
    /\ cpc' = "idle"
    /\ ret' = 0
    /\ gen_at_call' = NoGen
    /\ NoCpFrame
    /\ \/ UNCHANGED memo
       \/ /\ ret = 0
          /\ phase_error_std = 0
          /\ steering_angle = 0
          /\ n_elements > 0
          /\ n_theta > 0
          /\ memo' = {[args |-> CallArgs, out |-> pattern_out, rng_used |-> FALSE]}
    /\ UNCHANGED <<rngVars, rngObs, awVars, eggVars, parVars>>

\* add_awgn up to its second loop: the signal power and the noise deviation.
AW_Call(n, snr, order) ==
    /\ cpc = "idle"
    /\ ~RunsParallel(n)
    /\ n_samples' = n
    /\ snr_db' = snr
    /\ noise_std' = NoiseStd(MeanPower(n), snr)
    /\ signal' = [i \in 1..n |-> SignalIn(i - 1)]
    /\ aw_i' = 0
    /\ aw_part' = <<>>
    /\ aw_order' = order
    /\ cpc' = "awgn"
    /\ ret' = 0
    /\ gen_at_call' = Gen
    /\ UNCHANGED <<rngVars, rngObs, cpVars, memo, eggVars, parVars>>

\* signal[i] += noise_std * (randn(0, 1) + I * randn(0, 1)) from the two
\* deviates in the order the calls were made.
NoisySample(sample, std, part, order) ==
    IF order = "re_first" THEN AddNoise(sample, std, part[1], part[2])
    ELSE AddNoise(sample, std, part[2], part[1])

\* One randn call of the second loop (the sample is updated after its second
\* call), or return 0 at i = n_samples.
AW_Step ==
    /\ cpc = "awgn"
    /\ IF aw_i < n_samples
       THEN LET r == randn(Gen, 0, 1)
                part == Append(aw_part, r.ret)
            IN  /\ RandnCalled(r)
                /\ IF Len(part) = 2
                   THEN /\ signal' = [signal EXCEPT ![aw_i + 1] =
                               NoisySample(signal[aw_i + 1], noise_std, part, aw_order)]
                        /\ aw_i' = aw_i + 1
                        /\ aw_part' = <<>>
                   ELSE /\ aw_part' = part
                        /\ UNCHANGED <<signal, aw_i>>
                /\ UNCHANGED <<cpc, ret>>
       ELSE /\ cpc' = "awgn_ret"
            /\ ret' = 0
            /\ UNCHANGED <<rngVars, rngObs, signal, aw_i, aw_part, memo>>
    /\ UNCHANGED <<n_samples, snr_db, noise_std, aw_order, cpVars, gen_at_call,
                   eggVars, parVars>>

AW_Return ==
    /\ cpc = "awgn_ret"
    /\ cpc' = "idle"
    /\ ret' = 0
    /\ gen_at_call' = NoGen
    /\ NoAwFrame
    /\ UNCHANGED <<rngVars, rngObs, cpVars, memo, eggVars, parVars>>

SeedRngAny == \E seed \in Seeds : SeedRng(seed)

CP_CallAny ==
    \E n_el \in -1..MaxElements : \E n_th \in -1..MaxTheta :
    \E std \in PhaseErrorStds : \E steer \in SteeringAngles : \E d \in Spacings :
        CP_Call(n_el, n_th, std, steer, d)

AW_CallAny ==
    \E n \in 0..MaxSamples : \E snr \in SnrDbs :
    \E order \in {"re_first", "im_first"} : AW_Call(n, snr, order)

Init == EggInit /\ RadInit

Next ==
    \/ SeedRngAny
    \/ CP_CallAny
    \/ CP_Phase
    \/ CP_Angle
    \/ CP_Return
    \/ AW_CallAny
    \/ AW_Step
    \/ AW_Return

Spec == Init /\ [][Next]_vars

-----------------------------------------------------------------------------
(* add_awgn's second loop shared among the workers of the parallel region, *)
(* one access to the generator's statics per step                          *)

Workers == 0..(NumWorkers - 1)

\* schedule(static): worker w runs a block of ceil(n / NumWorkers) iterations.
ChunkSize(n) == (n + NumWorkers - 1) \div NumWorkers
ChunkFirst(w, n) == w * ChunkSize(n)
ChunkLen(w, n) ==
    LET rest == n - ChunkFirst(w, n)
    IN  IF rest <= 0 THEN 0 ELSE IF rest < ChunkSize(n) THEN rest ELSE ChunkSize(n)

\* The workers between randn's first access to the statics and its return.
NowInside(pcs) ==
    Cardinality({w \in Workers :
        pcs[w] \in {"r_clear", "r_take", "p_read", "p_write", "s_spare", "s_flag"}})

Observe ==
    in_region' = IF NowInside(wpc') > in_region THEN NowInside(wpc') ELSE in_region

ParFrame ==
    UNCHANGED <<n_samples, snr_db, noise_std, aw_i, aw_part, aw_order, cpVars,
                ret, gen_at_call, memo, last_seed, spare_at_seed, eggVars>>

\* add_awgn with n_samples > 1000 up to the parallel region.
AW_ParCall(n, snr, order) ==
    /\ cpc = "idle"
    /\ RunsParallel(n)
    /\ n_samples' = n
    /\ snr_db' = snr
    /\ noise_std' = NoiseStd(MeanPower(n), snr)
    /\ signal' = <<>>
    /\ aw_i' = 0
    /\ aw_part' = <<>>
    /\ aw_order' = order
    /\ cpc' = "awgn_par"
    /\ ret' = 0
    /\ gen_at_call' = Gen
    /\ wpc' = [w \in Workers |-> "loop"]
    /\ wloc' = [w \in Workers |-> NoLocals]
    /\ in_region' = 0
    /\ UNCHANGED <<rngVars, rngObs, cpVars, memo, eggVars>>

\* The loop condition of worker w's block: the next sample's first randn call.
W_Begin(w) ==
    /\ wpc[w] = "loop"
    /\ wloc[w].iter < ChunkLen(w, n_samples)
    /\ wloc[w].iter < MaxParIter
    /\ wpc' = [wpc EXCEPT ![w] = "r_test"]
    /\ wloc' = [wloc EXCEPT ![w].call = 1]
    /\ UNCHANGED <<rngVars, drawn, pcg_calls, signal, cpc, in_region>>
    /\ ParFrame

\* if (has_spare)
W_TestSpare(w) ==
    /\ wpc[w] = "r_test"
    /\ wpc' = [wpc EXCEPT ![w] = IF has_spare THEN "r_clear" ELSE "p_read"]
    /\ wloc' = [wloc EXCEPT ![w].k = 1]
    /\ Observe
    /\ UNCHANGED <<rngVars, drawn, pcg_calls, signal, cpc>>
    /\ ParFrame

\* randn returns v to worker w: the sample's second call follows the first,
\* and signal[i] is updated after the second.
W_Returns(w, v) ==
    /\ drawn' = Append(drawn, Deviate(v))
    /\ IF wloc[w].call = 1
       THEN /\ wpc' = [wpc EXCEPT ![w] = "r_test"]
            /\ wloc' = [wloc EXCEPT ![w].call = 2, ![w].first = v]
            /\ UNCHANGED signal
       ELSE LET i == ChunkFirst(w, n_samples) + wloc[w].iter IN
            /\ wpc' = [wpc EXCEPT ![w] = "loop"]
            /\ wloc' = [wloc EXCEPT ![w].iter = @ + 1, ![w].call = 0]
            /\ signal' = signal \o <<[index |-> i, value |->
                   NoisySample(SignalIn(i), noise_std, <<wloc[w].first, v>>, aw_order)]>>
    /\ Observe

\* has_spare = false
W_ClearSpare(w) ==
    /\ wpc[w] = "r_clear"
    /\ has_spare' = FALSE
    /\ wpc' = [wpc EXCEPT ![w] = "r_take"]
    /\ Observe
    /\ UNCHANGED <<rng_state, rng_inc, spare, wloc, drawn, pcg_calls, signal, cpc>>
    /\ ParFrame

\* return mean + std_dev * spare
W_TakeSpare(w) ==
    /\ wpc[w] = "r_take"
    /\ W_Returns(w, Scaled(0, 1, spare))
    /\ UNCHANGED <<rngVars, pcg_calls, cpc>>
    /\ ParFrame

\* uint64_t oldstate = rng.state
W_PcgRead(w) ==
    /\ wpc[w] = "p_read"
    /\ wloc' = [wloc EXCEPT ![w].old = rng_state]
    /\ wpc' = [wpc EXCEPT ![w] = "p_write"]
    /\ Observe
    /\ UNCHANGED <<rngVars, drawn, pcg_calls, signal, cpc>>
    /\ ParFrame

\* rng.state = oldstate * 6364136223846793005ULL + rng.inc, the output from
\* oldstate, and after u2 the test of the do-while loop.
W_PcgWrite(w) ==
    /\ wpc[w] = "p_write"
    /\ rng_state' = PcgAdvance(wloc[w].old, rng_inc)
    /\ pcg_calls' = pcg_calls + 1
    /\ LET out == PcgOutput(wloc[w].old) IN
       IF wloc[w].k = 1
       THEN /\ wloc' = [wloc EXCEPT ![w].u1 = out, ![w].k = 2]
            /\ wpc' = [wpc EXCEPT ![w] = "p_read"]
       ELSE /\ wloc' = [wloc EXCEPT ![w].u2 = out, ![w].k = 1]
            /\ wpc' = [wpc EXCEPT ![w] =
                   IF Rejected(wloc[w].u1) THEN "p_read" ELSE "s_spare"]
    /\ Observe
    /\ UNCHANGED <<rng_inc, has_spare, spare, drawn, signal, cpc>>
    /\ ParFrame

\* spare = r * sin(theta)
W_StoreSpare(w) ==
    /\ wpc[w] = "s_spare"
    /\ spare' = BoxMullerSpare(wloc[w].u1, wloc[w].u2)
    /\ wpc' = [wpc EXCEPT ![w] = "s_flag"]
    /\ Observe
    /\ UNCHANGED <<rng_state, rng_inc, has_spare, wloc, drawn, pcg_calls, signal, cpc>>
    /\ ParFrame

\* has_spare = true; return mean + std_dev * z
W_SetFlag(w) ==
    /\ wpc[w] = "s_flag"
    /\ has_spare' = TRUE
    /\ W_Returns(w, Scaled(0, 1, BoxMullerZ(wloc[w].u1, wloc[w].u2)))
    /\ UNCHANGED <<rng_state, rng_inc, spare, pcg_calls, cpc>>
    /\ ParFrame

AW_ParCallAny ==
    \E snr \in SnrDbs : \E order \in {"re_first", "im_first"} :
        AW_ParCall(OMP_IF_THRESHOLD + 1, snr, order)

ParNext ==
    \/ AW_ParCallAny
    \/ \E w \in Workers : W_Begin(w)
    \/ \E w \in Workers : W_TestSpare(w)
    \/ \E w \in Workers : W_ClearSpare(w)
    \/ \E w \in Workers : W_TakeSpare(w)
    \/ \E w \in Workers : W_PcgRead(w)
    \/ \E w \in Workers : W_PcgWrite(w)
    \/ \E w \in Workers : W_StoreSpare(w)
    \/ \E w \in Workers : W_SetFlag(w)

SpecPar == Init /\ [][ParNext]_vars

-----------------------------------------------------------------------------
(* egg drop: the specification *)

FBP_CallAny ==
    \E tf \in 1..MaxFloors : \E bf \in 1..tf : FBP_Call(bf, tf)

EggNext ==
    \/ FBP_CallAny
    \/ BS_Read
    \/ BS_ReadOutside
    \/ BS_Fault
    \/ BS_Exit
    \/ Linear_Step
    \/ Second_Step
    \/ FBP_Return

SpecEgg == Init /\ [][EggNext]_vars

-----------------------------------------------------------------------------
(* Properties *)

\* The generator state after n pcg32_random calls.
RECURSIVE AdvanceN(_, _, _)
AdvanceN(state, inc, n) ==
    IF n = 0 THEN state ELSE AdvanceN(PcgAdvance(state, inc), inc, n - 1)

\* The first k deviates randn returns from generator g.
RECURSIVE DeviatesFrom(_, _)
DeviatesFrom(g, k) ==
    IF k = 0 THEN <<>>
    ELSE LET r == randn(g, 0, 1)
         IN  <<Deviate(r.ret)>> \o DeviatesFrom(r.g, k - 1)

\* The generator of a process that has called nothing yet.
FreshGen == [state |-> PCG_INIT_STATE, inc |-> PCG_INIT_INC,
             has_spare |-> FALSE, spare |-> SPARE_INIT]

NoRepeat(seq) == \A i, j \in 1..Len(seq) : i # j => seq[i] # seq[j]

\* C1: after seed_rng(s) the deviates drawn are the same sequence every time,
\* whatever was called before the reseed: the sequence a process draws that
\* calls seed_rng(s) first of all.
C1_Reproducible ==
    last_seed # <<>> =>
        drawn = DeviatesFrom(seed_rng(FreshGen, last_seed), Len(drawn))

\* C2: calculate_pattern with n_elements <= 0 or n_theta <= 0 returns an
\* error status and has not written pattern_out.
C2_InvalidCounts ==
    (cpc = "cp_ret" /\ (n_elements <= 0 \/ n_theta <= 0)) =>
        (ret # 0 /\ cp_t = {})

\* C3: add_awgn with n_samples = 0 returns an error status and leaves the
\* signal buffer and the generator as they were.
C3_ZeroSamples ==
    (cpc = "awgn_ret" /\ n_samples = 0) =>
        (ret # 0 /\ signal = <<>> /\ Gen = gen_at_call)

\* C4: in the parallel region of add_awgn the accesses to the generator are
\* serialized: no two workers are inside randn at once, every pcg32_random
\* call advances the state (none is lost), and no deviate is handed out twice.
C4_Serialized ==
    cpc = "awgn_par" =>
        /\ in_region <= 1
        /\ rng_state = AdvanceN(gen_at_call.state, rng_inc, pcg_calls)
        /\ NoRepeat(drawn)

\* C5: a calculate_pattern call with phase_error_std = 0 draws nothing and
\* leaves rng.state, rng.inc, has_spare and spare as they were, and with
\* steering_angle = 0 a successful call's pattern_out equals that of an
\* earlier successful call with the same arguments, whatever ran in between.
C5_Deterministic ==
    (cpc \in {"phases", "angles", "cp_ret"} /\ phase_error_std = 0) =>
        /\ Gen = gen_at_call
        /\ cp_draws = 0
        /\ (cpc = "cp_ret" /\ ret = 0 /\ steering_angle = 0) =>
               \A m \in memo : m.args = CallArgs => pattern_out = m.out

C5_Witness ==
    /\ cpc = "cp_ret"
    /\ ret = 0
    /\ phase_error_std = 0
    /\ steering_angle = 0
    /\ n_elements >= 2
    /\ n_theta >= 2
    /\ has_spare
    /\ \E m \in memo : m.args = CallArgs /\ m.rng_used /\ pattern_out = m.out

\* C6: find_breaking_point returns drops_used <= optimal_drops, and
\* optimal_drops is the least k with k(k+1)/2 >= total_floors.
C6_WithinOptimal ==
    epc = "done" =>
        /\ drops_used <= optimal_drops
        /\ optimal_drops * (optimal_drops + 1) >= 2 * total_floors
        /\ (optimal_drops - 1) * optimal_drops < 2 * total_floors

\* C7: a calculate_pattern call with phase_error_std > 0 makes one randn call
\* per element, all before the first write to pattern_out and none in the
\* loop over the angles, so that every pattern_out[t] written is computed
\* from the same total_phases, whose errors are the deviates drawn.
C7_DrawnOncePerElement ==
    (cpc \in {"phases", "angles", "cp_ret"} /\ phase_error_std > 0) =>
        /\ ~draw_after_write
        /\ cp_draws = Len(total_phases)
        /\ cpc = "phases" => cp_t = {}
        /\ (cpc = "angles" \/ (cpc = "cp_ret" /\ ret = 0)) =>
              /\ cp_draws = (IF n_elements > 0 THEN n_elements ELSE 0)
              /\ \A i \in 1..cp_draws :
                    Deviate(total_phases[i].err) = drawn[Len(drawn) - cp_draws + i]
              /\ \A t \in cp_t :
                    pattern_out[t + 1] = PatternSum(n_elements, spacing, ThetaDeg(t),
                                                    steering_angle, total_phases)

C7_Witness ==
    /\ cpc = "cp_ret"
    /\ ret = 0
    /\ phase_error_std > 0
    /\ n_elements >= 2
    /\ cp_draws = n_elements
    /\ Cardinality(cp_t) >= 2
    /\ ~draw_after_write

\* A step that is one randn call.
RandnStep == Len(drawn') = Len(drawn) + 1

\* The pairs of uniforms drawn by a call that made k pcg32_random calls: all
\* but the last have a first uniform <= 1e-7.
PairsRejectedButLast(k) ==
    \A j \in 0..((k \div 2) - 1) :
        Rejected(PcgOutput(AdvanceN(rng_state, rng_inc, 2 * j))) <=> (j < (k \div 2) - 1)

\* C8: a randn call made with has_spare set returns the cached deviate, clears
\* has_spare and leaves rng.state and rng.inc alone; a call made with
\* has_spare clear advances the generator by an even number (>= 2) of steps,
\* one pair for every rejected first uniform and one more, and sets
\* has_spare; the generator advances in no other call of a sequential run.
C8_SpareCache ==
    [][ /\ (RandnStep /\ has_spare) =>
              /\ drawn'[Len(drawn')] = spare
              /\ ~has_spare'
              /\ rng_state' = rng_state
              /\ rng_inc' = rng_inc
              /\ pcg_calls' = pcg_calls
        /\ (RandnStep /\ ~has_spare) =>
              /\ has_spare'
              /\ spare'[1] = "sin"
              /\ rng_inc' = rng_inc
              /\ pcg_calls' - pcg_calls >= 2
              /\ (pcg_calls' - pcg_calls) % 2 = 0
              /\ rng_state' = AdvanceN(rng_state, rng_inc, pcg_calls' - pcg_calls)
              /\ PairsRejectedButLast(pcg_calls' - pcg_calls)
        /\ (rng_state' # rng_state /\ ~(cpc = "idle" /\ cpc' = "idle")) =>
              (RandnStep /\ ~has_spare)
      ]_vars

\* After seed_rng(SEED_REJECT) one call rejected a pair and drew another, and
\* the next call returned the cached deviate.
C8_Witness ==
    /\ last_seed = SEED_REJECT
    /\ ~spare_at_seed
    /\ Len(drawn) = 2
    /\ pcg_calls = 4
    /\ ~has_spare
    /\ drawn[1][1] = "cos"
    /\ drawn[2] = spare

\* C9: the first-egg phase makes at most one drop from a floor at or above
\* breaking_floor, and the whole search at most two.
C9_TwoEggs == broken_first <= 1 /\ broken_total <= 2

\* C10: every read drop_points[mid] of binary_search_drops has
\* 0 <= mid < num_points, and right = mid - 1 never runs with mid = 0.
C10_IndexSafe ==
    /\ ~wrapped
    /\ last_mid # <<>> => InFilled(last_mid)

=============================================================================
